---- MODULE Spec2Model ----
(***************************************************************************)
(* A model of gen_net: the FIPA Contract Net of                            *)
(* src/gen_net/llegos/fipa/contract_net.py, the base entity of             *)
(* src/gen_net/abstract.py and the message graph / textual round trip      *)
(* exercised by src/gen_net/test_message.py.                               *)
(*                                                                         *)
(* Several specifications share the module:                                *)
(*   Spec       - construction of a ContractNet, one request() run, the    *)
(*                propagation of the CFPs and the consumer of the stream;  *)
(*   SpecLive   - Spec under fair scheduling;                              *)
(*   SpecGraph  - message_graph and has_predecessor;                       *)
(*   SpecYaml   - str(message) followed by yaml.safe_load;                 *)
(*   SpecEntity - construction of entities and their ids.                  *)
(*                                                                         *)
(* gen_net.llegos.asyncio (propogate_all), gen_net.llegos.networks         *)
(* (GenNetwork, NetworkAgent, Message) and gen_net.messages are imported   *)
(* by the sources but are not among them; the definitions that stand for   *)
(* them follow spec.md and say so.                                         *)
(***************************************************************************)
EXTENDS Naturals, Integers, Sequences, FiniteSets, TLC

VARIABLES
    net,        \* the ContractNet: status, manager, contractors, links, and
                \* arg, the contractor list its constructor was given
    policy,     \* how the concrete agents' handlers behave: "any" | "scenario"
    request,    \* the Request message handed to request()
    pc,         \* position of the request() generator
    out,        \* out[i]: the messages of branch i that request() has yielded, in
                \* order (the output stream, branch by branch: the order across
                \* branches is whichever branch is ready first)
    stopK,      \* 0, or k when the consumer sent the stop sentinel after the k-th
    q,          \* q[i]: messages branch i produced that are not yet yielded
    cur,        \* cur[i]: the last message branch i produced
    stage,      \* stage[i]: "handling" (a handler runs on cur[i]) | "end"
    n,          \* n[i]: number of messages built in branch i
    bstate,     \* bstate[i]: the branch's protocol state
    dispatched, \* every message handed to a receiver's receive()
    raisedCfp,  \* branches whose cfp handler raised
    rcv,        \* rcv[i]: the last receive() finished on branch i: the message
                \* and what came of it
    gin,        \* the ordered messages handed to message_graph
    graph,      \* the graph message_graph built from them
    gres,       \* the last has_predecessor query and its answer
    yobj,       \* the entity whose text form is taken: its dict()
    ytext,      \* str(entity): the YAML document
    yparsed,    \* yaml.safe_load of the document
    ypc,        \* "new" | "dumped" | "parsed" | "error"
    ents,       \* the entities constructed so far, in order: class, the id the
                \* caller gave ("" when none) and the id after __init__
    uuids       \* number of uuid4() calls made so far

protoVars == <<net, policy, request, pc, out, stopK, q, cur, stage, n, bstate,
               dispatched, raisedCfp, rcv>>

graphVars == <<gin, graph, gres>>

yamlVars == <<yobj, ytext, yparsed, ypc>>

entVars == <<ents, uuids>>

vars == <<protoVars, graphVars, yamlVars, entVars>>

-----------------------------------------------------------------------------
(* Bounds *)

\* Longest contractor list of the general runs.
MaxContractors == 2

\* Cap on the messages of one branch (never reached by the code as written).
MaxChain == 8

-----------------------------------------------------------------------------
(* Agents and message kinds *)

ManagerId == "M"

AgentNames == <<"A", "B", "C", "D">>

\* Contractor lists up to renaming of the agents: a list may name an agent twice.
RECURSIVE MaxIdx(_)
MaxIdx(s) ==
    IF s = <<>> THEN 0
    ELSE LET m == MaxIdx(SubSeq(s, 1, Len(s) - 1))
         IN  IF s[Len(s)] > m THEN s[Len(s)] ELSE m

Canonical(s) ==
    \A i \in 1..Len(s) : s[i] <= MaxIdx(SubSeq(s, 1, i - 1)) + 1

ContractorLists ==
    LET idx == UNION {[1..k -> 1..MaxContractors] : k \in 0..MaxContractors}
    IN  {[i \in 1..Len(s) |-> AgentNames[s[i]]] : s \in {t \in idx : Canonical(t)}}

ScenarioContractors == <<"A", "B", "C">>

\* The method tags of the Message subclasses.
Kinds == {"cfp", "accept", "refuse", "propose", "accept_proposal",
          "reject_proposal", "failure", "inform_done", "inform_result",
          "request", "response"}

\* receivable_messages of the two roles.
ParticipantReceivable == {"cfp", "reject_proposal", "accept_proposal", "failure"}

InitiatorReceivable == {"propose", "refuse", "inform_done", "inform_result", "failure"}

\* The handlers the two abstract classes declare.
ParticipantHandlers == {"cfp", "accept_proposal", "reject_proposal"}

InitiatorHandlers == {"propose", "inform_done", "inform_result", "failure"}

RoleOf(agent) == IF agent = ManagerId THEN "initiator" ELSE "participant"

Receivable(role) ==
    IF role = "initiator" THEN InitiatorReceivable ELSE ParticipantReceivable

Handlers(role) ==
    IF role = "initiator" THEN InitiatorHandlers ELSE ParticipantHandlers

-----------------------------------------------------------------------------
(* Messages *)

NoId == <<"none", 0, 0>>

Nobody == "nobody"

\* AbstractObject.__init__: an entity built without an id gets
\* ClassName:<uuid4>; the pair (branch, ordinal) stands for the uuid.
NewId(kind, i, k) == <<kind, i, k>>

RequestIds == {<<"request", 0, 1>>, <<"request", 0, 2>>}

\* metadata: an open mapping, here the list of its (key, value) pairs.
NoMetadata == <<>>

SomeMetadata == <<<<"foo", "bar">>>>

\* A message built by its class's constructor: kind is the class, method the
\* tag the class hard-codes, metadata the default empty dict.
Msg(id, kind, sender, receiver, replyTo) ==
    [id |-> id, kind |-> kind, method |-> kind, metadata |-> NoMetadata,
     sender |-> sender, receiver |-> receiver, reply_to |-> replyTo]

\* Message.reply: a new message answering src, from src's receiver to its sender.
Reply(kind, src, id) == Msg(id, kind, src.receiver, src.sender, src.id)

\* Message.forward: a new message of class kind with a new id and
\* reply_to = src.id; sender, receiver, method and metadata are those of src
\* unless overridden (only sender and receiver are ever overridden here).
Forward(kind, src, sender, receiver, id) ==
    [Msg(id, kind,
         IF sender = Nobody THEN src.sender ELSE sender,
         IF receiver = Nobody THEN src.receiver ELSE receiver,
         src.id)
     EXCEPT !.method = src.method, !.metadata = src.metadata]

\* The Request messages a caller hands to request(): one with the default
\* metadata, one carrying some.
Requests ==
    {[Msg(rid, "request", "user", Nobody, NoId)
       EXCEPT !.metadata = IF rid[3] = 1 THEN NoMetadata ELSE SomeMetadata] :
       rid \in RequestIds}

-----------------------------------------------------------------------------
(* ContractNet *)

\* Field(min_items=1) of ContractNet.contractors.
MinItems == 1

ValidContractors_NoMin(cs) == TRUE

ValidContractors(cs) == Len(cs) >= MinItems

\* ContractNet.__init__: one (manager, "contractor", c) link per contractor.
Links(manager, cs) == {<<manager, "contractor", cs[i]>> : i \in 1..Len(cs)}

RequestCFP_NoForward(message, manager, c, i) ==
    Msg(NewId("cfp", i, 1), "cfp", manager, c, NoId)

RequestCFP_Reply(message, manager, c, i) ==
    [Reply("cfp", message, NewId("cfp", i, 1))
     EXCEPT !.sender = manager, !.receiver = c]

\* CFP.forward(message, sender=self.manager, receiver=c)
RequestCFP(message, manager, c, i) ==
    Forward("cfp", message, manager, c, NewId("cfp", i, 1))

RequestCFPs_FirstOnly(message, manager, cs) ==
    [i \in 1..Len(cs) |-> RequestCFP(message, manager, cs[1], i)]

\* The list comprehension of request(): one CFP per entry of self.contractors.
RequestCFPs(message, manager, cs) ==
    [i \in 1..Len(cs) |-> RequestCFP(message, manager, cs[i], i)]

SentNone == "None"

SentStop == "StopAsyncIteration"

RequestResume_IgnoreStop(sent) == "waiting"

RequestResume_Inverted(sent) == IF sent = SentStop THEN "waiting" ELSE "done"

\* if (yield reply) is StopAsyncIteration: break
RequestResume(sent) == IF sent = SentStop THEN "done" ELSE "waiting"

RequestYield_Front(stream, reply) == <<reply>> \o stream

\* yield reply: the consumer receives the replies in the order propogate_all
\* produced them.
RequestYield(stream, reply) == Append(stream, reply)

-----------------------------------------------------------------------------
(* Handlers *)

CfpReplies_Any == {"propose", "refuse", "inform_done"}

\* Participant.cfp -> Union[Propose, Refuse]
CfpReplies == {"propose", "refuse"}

AcceptProposalReplies_OrNone == {"inform_done", "inform_result", "failure", "none"}

\* Participant.accept_proposal -> Union[InformDone, InformResult, Failure]
AcceptProposalReplies == {"inform_done", "inform_result", "failure"}

\* Participant.reject_proposal -> None
RejectProposalReply == "none"

ProposeReply_InformDone(ok) == IF ok THEN "inform_done" ELSE "reject_proposal"

\* Initiator.propose: yield AcceptProposal.reply(message) if ok, else
\* RejectProposal.reply(message); ok is the concrete manager's decision.
ProposeReply(ok) == IF ok THEN "accept_proposal" ELSE "reject_proposal"

InformDoneReply_Response == "response"

\* Initiator.inform_done -> None
InformDoneReply == "none"

\* Initiator.inform_result: yield Response.forward(message, sender=self)
InformResultReply == "response"

\* Initiator.failure -> None
FailureReply == "none"

\* What a concrete cfp handler may answer besides a Propose or a Refuse.
UnexpectedCfpReplies == {"inform_done"}

\* The outcomes of the handler for kind at an agent of the given role, the
\* abstract handlers being implemented by arbitrary concrete agents: they
\* answer within their declared type, raise, or (cfp) answer out of protocol.
AnyOutcomes(role, kind) ==
    IF role = "participant"
    THEN CASE kind = "cfp" -> CfpReplies \cup {"raise"} \cup UnexpectedCfpReplies
           [] kind = "accept_proposal" -> AcceptProposalReplies \cup {"raise"}
           [] OTHER -> {RejectProposalReply}
    ELSE CASE kind = "propose" -> {ProposeReply(ok) : ok \in BOOLEAN} \cup {"raise"}
           [] kind = "inform_done" -> {InformDoneReply}
           [] kind = "inform_result" -> {InformResultReply}
           [] OTHER -> {FailureReply}

\* The agents of the scenario: A refuses, B and C propose, the manager
\* accepts B and rejects C, B informs done.
ScenarioOutcomes(msg) ==
    LET role == RoleOf(msg.receiver)
    IN  IF role = "participant"
        THEN CASE msg.kind = "cfp" ->
                    IF msg.receiver = "A" THEN {"refuse"} ELSE {"propose"}
               [] msg.kind = "accept_proposal" -> {"inform_done"}
               [] OTHER -> {RejectProposalReply}
        ELSE CASE msg.kind = "propose" -> {ProposeReply(msg.sender = "B")}
               [] OTHER -> AnyOutcomes(role, msg.kind)

\* receive(message): the kind must be receivable and have a handler; the
\* handler then runs.
ReceiveOutcomes(pol, msg) ==
    LET role == RoleOf(msg.receiver)
    IN  IF msg.kind \notin Receivable(role) THEN {"unsupported"}
        ELSE IF msg.kind \notin Handlers(role) THEN {"nohandler"}
        ELSE IF pol = "scenario" THEN ScenarioOutcomes(msg)
        ELSE AnyOutcomes(role, msg.kind)

-----------------------------------------------------------------------------
(* Propagator *)

\* The replies the protocol expects to a message of the given kind.
ExpectedReplies(kind) ==
    CASE kind = "cfp" -> CfpReplies
      [] kind = "accept_proposal" -> AcceptProposalReplies
      [] kind = "propose" -> {ProposeReply(ok) : ok \in BOOLEAN}
      [] kind = "inform_result" -> {InformResultReply}
      [] OTHER -> {}

WrapFailure_ToSelf(msg, id) == Msg(id, "failure", msg.receiver, msg.receiver, msg.id)

\* A failed handler, a rejected kind or an out-of-protocol answer becomes a
\* Failure addressed back to the sender of the message that was being handled.
WrapFailure(msg, id) == Reply("failure", msg, id)

\* The message a handler outcome puts on the branch.
Produced(msg, o, id) ==
    IF o \in ExpectedReplies(msg.kind)
    THEN IF o = "response"
         THEN Forward("response", msg, msg.receiver, Nobody, id)
         ELSE Reply(o, msg, id)
    ELSE WrapFailure(msg, id)

\* Refusals end their branch without further dispatch; every other message
\* is delivered to its receiver.
Dispatchable(m) == m.kind # "refuse"

\* The merged stream takes a branch's messages in the order it produced them.
TakeNext(pending) == Head(pending)

DropNext(pending) == Tail(pending)

-----------------------------------------------------------------------------
(* Branch states *)

StateOfKind(kind, old) ==
    CASE kind = "cfp" -> "CFP-sent"
      [] kind = "propose" -> "Proposed"
      [] kind = "refuse" -> "Refused"
      [] kind = "accept_proposal" -> "Accepted"
      [] kind = "reject_proposal" -> "Rejected"
      [] kind = "inform_done" -> "Done"
      [] kind = "inform_result" -> "Resulted"
      [] kind = "failure" -> "Failed"
      [] OTHER -> old

\* A branch's state follows the messages exchanged with its contractor.
StateAfter(old, m, c) ==
    IF m.sender = c \/ m.receiver = c THEN StateOfKind(m.kind, old) ELSE old

-----------------------------------------------------------------------------
(* Actions *)

NumBranches == Len(q)

Branches == 1..NumBranches

\* What a finished receive() leaves behind: the message and its outcome (the
\* kind answered, "none", "raise", "unsupported" or "nohandler").
Received(msg, o) == [done |-> TRUE, msg |-> msg, outcome |-> o]

NoReceive == [done |-> FALSE, msg |-> Msg(NoId, "request", Nobody, Nobody, NoId),
              outcome |-> "none"]

\* Number of messages request() has yielded so far.
RECURSIVE YieldedUpTo(_)
YieldedUpTo(i) == IF i = 0 THEN 0 ELSE Len(out[i]) + YieldedUpTo(i - 1)

StreamLen == YieldedUpTo(Len(out))

ProtoInit ==
    /\ net = [status |-> "none", manager |-> ManagerId, contractors |-> <<>>,
              links |-> {}, arg |-> <<>>]
    /\ policy \in {"any", "scenario"}
    /\ request = Msg(NoId, "request", Nobody, Nobody, NoId)
    /\ pc = "new"
    /\ out = <<>>
    /\ stopK = 0
    /\ q = <<>>
    /\ cur = <<>>
    /\ stage = <<>>
    /\ n = <<>>
    /\ bstate = <<>>
    /\ dispatched = {}
    /\ raisedCfp = {}
    /\ rcv = <<>>

\* ContractNet(manager, contractors)
Construct ==
    /\ net.status = "none"
    /\ \E cs \in (IF policy = "scenario"
                  THEN {<<>>, ScenarioContractors} ELSE ContractorLists) :
         IF ValidContractors(cs)
         THEN /\ net' = [status |-> "built", manager |-> ManagerId,
                         contractors |-> cs, links |-> Links(ManagerId, cs),
                         arg |-> cs]
              /\ bstate' = [i \in 1..Len(cs) |-> "Idle"]
         ELSE /\ net' = [net EXCEPT !.status = "error", !.arg = cs]
              /\ bstate' = bstate
    /\ UNCHANGED <<policy, request, pc, out, stopK, q, cur, stage, n,
                   dispatched, raisedCfp, rcv>>
    /\ UNCHANGED <<graphVars, yamlVars, entVars>>

\* request(message), up to the first await on the propagated stream: the
\* CFPs are built and the whole batch is dispatched concurrently.
Request ==
    /\ net.status = "built"
    /\ pc = "new"
    /\ \E message \in Requests :
         LET batch == RequestCFPs(message, net.manager, net.contractors)
         IN  /\ request' = message
             /\ q' = [i \in 1..Len(batch) |-> <<batch[i]>>]
             /\ out' = [i \in 1..Len(batch) |-> <<>>]
             /\ cur' = batch
             /\ stage' = [i \in 1..Len(batch) |-> "handling"]
             /\ n' = [i \in 1..Len(batch) |-> 1]
             /\ bstate' = [i \in 1..Len(batch) |->
                             StateAfter(bstate[i], batch[i], net.contractors[i])]
             /\ dispatched' = {batch[i] : i \in 1..Len(batch)}
             /\ rcv' = [i \in 1..Len(batch) |-> NoReceive]
    /\ pc' = "waiting"
    /\ UNCHANGED <<net, policy, stopK, raisedCfp>>
    /\ UNCHANGED <<graphVars, yamlVars, entVars>>

\* The handler running on cur[i] completes.  After the consumer stopped the
\* stream its output is discarded and nothing more is dispatched.
HandlerDone(i) ==
    /\ stage[i] = "handling"
    /\ IF pc = "done" \/ n[i] >= MaxChain
       THEN /\ stage' = [stage EXCEPT ![i] = "end"]
            /\ UNCHANGED <<q, cur, n, bstate, dispatched, raisedCfp, rcv>>
       ELSE \E o \in ReceiveOutcomes(policy, cur[i]) :
              /\ rcv' = [rcv EXCEPT ![i] = Received(cur[i], o)]
              /\ IF o = "none"
                 THEN /\ stage' = [stage EXCEPT ![i] = "end"]
                      /\ UNCHANGED <<q, cur, n, bstate, dispatched, raisedCfp>>
                 ELSE
                   LET r == Produced(cur[i], o, NewId(o, i, n[i] + 1))
                   IN  /\ q' = [q EXCEPT ![i] = Append(@, r)]
                       /\ cur' = [cur EXCEPT ![i] = r]
                       /\ n' = [n EXCEPT ![i] = @ + 1]
                       /\ bstate' = [bstate EXCEPT
                                       ![i] = StateAfter(@, r, net.contractors[i])]
                       /\ raisedCfp' = IF o = "raise" /\ cur[i].kind = "cfp"
                                       THEN raisedCfp \cup {i} ELSE raisedCfp
                       /\ IF Dispatchable(r)
                          THEN /\ dispatched' = dispatched \cup {r}
                               /\ stage' = stage
                          ELSE /\ dispatched' = dispatched
                               /\ stage' = [stage EXCEPT ![i] = "end"]
    /\ UNCHANGED <<net, policy, request, pc, out, stopK>>
    /\ UNCHANGED <<graphVars, yamlVars, entVars>>

\* async for reply in propogate_all(messages): yield reply
Yield(i) ==
    /\ pc = "waiting"
    /\ q[i] # <<>>
    /\ out' = [out EXCEPT ![i] = RequestYield(@, TakeNext(q[i]))]
    /\ q' = [q EXCEPT ![i] = DropNext(@)]
    /\ pc' = "yielded"
    /\ UNCHANGED <<net, policy, request, stopK, cur, stage, n, bstate,
                   dispatched, raisedCfp, rcv>>
    /\ UNCHANGED <<graphVars, yamlVars, entVars>>

\* The consumer resumes the generator with None or with the stop sentinel.
Consume(sent) ==
    /\ pc = "yielded"
    /\ pc' = RequestResume(sent)
    /\ stopK' = IF sent = SentStop THEN StreamLen ELSE stopK
    /\ q' = IF sent = SentStop THEN [i \in Branches |-> <<>>] ELSE q
    /\ UNCHANGED <<net, policy, request, out, cur, stage, n, bstate,
                   dispatched, raisedCfp, rcv>>
    /\ UNCHANGED <<graphVars, yamlVars, entVars>>

\* The propagated stream is exhausted: the async for ends and request returns.
Finish ==
    /\ pc = "waiting"
    /\ \A i \in Branches : q[i] = <<>> /\ stage[i] = "end"
    /\ pc' = "done"
    /\ UNCHANGED <<net, policy, request, out, stopK, q, cur, stage, n, bstate,
                   dispatched, raisedCfp, rcv>>
    /\ UNCHANGED <<graphVars, yamlVars, entVars>>

Next ==
    \/ Construct
    \/ Request
    \/ \E i \in Branches : HandlerDone(i)
    \/ \E i \in Branches : Yield(i)
    \/ \E sent \in {SentNone, SentStop} : Consume(sent)
    \/ Finish

-----------------------------------------------------------------------------
(* Message graph *)

\* Longest message sequence handed to message_graph.
MaxGraphMsgs == 3

\* reply_to of a conversation-initiating message.
NoRef == 0

GraphMsg(id, replyTo) == [id |-> id, reply_to |-> replyTo]

\* The messages of test_message_graph: m1, m2 answering m1, m3 answering m2.
TestMessages == <<GraphMsg(1, NoRef), GraphMsg(2, 1), GraphMsg(3, 2)>>

\* Ordered message sequences: the p-th message has id p and answers nothing,
\* an earlier message, itself, a later message, or a message not in the input.
GraphInputs ==
    {[p \in 1..Len(r) |-> GraphMsg(p, r[p])] :
       r \in UNION {[1..k -> 0..(MaxGraphMsgs + 1)] : k \in 0..MaxGraphMsgs}}

EmptyGraph == [status |-> "none", nodes |-> {}, edges |-> {}]

\* message_graph: one pass over the input in order, adding each message and
\* the edge from the id it answers to it.  Nothing is checked about that id:
\* it may be absent from the input, or belong to the message itself or to a
\* later one.
RECURSIVE MessageGraphFrom(_, _)
MessageGraphFrom(g, msgs) ==
    IF msgs = <<>> THEN g
    ELSE LET m == Head(msgs)
         IN  MessageGraphFrom(
               [status |-> "built",
                nodes |-> g.nodes \cup {m.id},
                edges |-> g.edges \cup
                          (IF m.reply_to = NoRef THEN {}
                           ELSE {<<m.reply_to, m.id>>})],
               Tail(msgs))

MessageGraph(msgs) ==
    MessageGraphFrom([status |-> "built", nodes |-> {}, edges |-> {}], msgs)

HasPredecessor_Direct(g, a, b) == <<b, a>> \in g.edges

\* b is met within k causal edges walking up from a.
RECURSIVE EdgePath(_, _, _, _)
EdgePath(g, a, b, k) ==
    /\ k > 0
    /\ \E e \in g.edges : e[2] = a /\ (e[1] = b \/ EdgePath(g, e[1], b, k - 1))

\* graph.has_predecessor(a, b): b is met walking up the causal edges from a
\* (a walk longer than the graph has ids meets nothing new).
HasPredecessor(g, a, b) == EdgePath(g, a, b, Cardinality(g.nodes) + 1)

NoResult == [asked |-> FALSE, a |-> 0, b |-> 0, ans |-> FALSE]

GraphIdle == gin = <<>> /\ graph = EmptyGraph /\ gres = NoResult

\* g = messages.message_graph([...])
BuildGraph ==
    /\ graph.status = "none"
    /\ graph' = MessageGraph(gin)
    /\ UNCHANGED <<gin, gres, protoVars, yamlVars, entVars>>

\* g.has_predecessor(a, b) for two messages of the graph
Query ==
    /\ graph.status = "built"
    /\ \E a, b \in graph.nodes :
         gres' = [asked |-> TRUE, a |-> a, b |-> b,
                  ans |-> HasPredecessor(graph, a, b)]
    /\ UNCHANGED <<gin, graph, protoVars, yamlVars, entVars>>

-----------------------------------------------------------------------------
(* Textual form: str(entity) and yaml.safe_load *)

\* Python values: t is the type, s the scalar's content, items the elements.
VStr(s) == [t |-> "str", s |-> s, items |-> <<>>]

VNone == [t |-> "none", s |-> "", items |-> <<>>]

VBool(s) == [t |-> "bool", s |-> s, items |-> <<>>]

VInt(s) == [t |-> "int", s |-> s, items |-> <<>>]

VList(items) == [t |-> "list", s |-> "", items |-> items]

VTuple(items) == [t |-> "tuple", s |-> "", items |-> items]

\* A dict keeps its insertion order: items are its (key, value) pairs.
VPair(k, v) == [t |-> "pair", s |-> k, items |-> <<v>>]

VDict(pairs) == [t |-> "dict", s |-> "", items |-> pairs]

VError == [t |-> "error", s |-> "", items |-> <<>>]

\* YAML nodes: a scalar with its style, a sequence, a mapping of pairs.
Node(kind, tag, style, text, children) ==
    [kind |-> kind, tag |-> tag, style |-> style, text |-> text,
     children |-> children]

NoNode == Node("none", "", "", "", <<>>)

\* Plain scalars the YAML resolver reads as null, bool or int.
NullTexts == {"null", "Null", "NULL", "~", ""}

BoolTexts == {"true", "false", "True", "False", "yes", "no", "on", "off"}

IntTexts == {"0", "1", "12"}

MultilineTexts == {"Hello, world!\nMy name is Alice!"}

\* The emitter quotes a string that would not read back as a string.
NeedsQuotes(s) ==
    s \in NullTexts \cup BoolTexts \cup IntTexts \cup MultilineTexts

\* The keys of the model in alphabetical order, for sort_keys=True.
KeyOrder == <<"alpha", "content", "foo", "id", "metadata", "method",
              "reply_to", "sender", "zeta">>

RECURSIVE SortedPairs(_, _)
SortedPairs(pairs, k) ==
    IF k > Len(KeyOrder) THEN <<>>
    ELSE SelectSeq(pairs, LAMBDA pr : pr.s = KeyOrder[k])
           \o SortedPairs(pairs, k + 1)

SortKeys_Default == TRUE

\* yaml.dump(self.dict(), sort_keys=False)
SortKeys == FALSE

\* yaml.dump: the representer and emitter.  Tuples and other Python-only
\* types are written under a !!python/ tag.
RECURSIVE Represent(_)
Represent(v) ==
    CASE v.t = "str" ->
           Node("scalar", "", IF NeedsQuotes(v.s) THEN "quoted" ELSE "plain",
                v.s, <<>>)
      [] v.t = "none" -> Node("scalar", "", "plain", "null", <<>>)
      [] v.t \in {"bool", "int"} -> Node("scalar", "", "plain", v.s, <<>>)
      [] v.t = "list" ->
           Node("seq", "", "", "",
                [i \in 1..Len(v.items) |-> Represent(v.items[i])])
      [] v.t = "tuple" ->
           Node("seq", "!!python/tuple", "", "",
                [i \in 1..Len(v.items) |-> Represent(v.items[i])])
      [] v.t = "dict" ->
           LET pairs == IF SortKeys THEN SortedPairs(v.items, 1) ELSE v.items
           IN  Node("map", "", "", "",
                    [i \in 1..Len(pairs) |->
                       Node("pair", "", "", pairs[i].s,
                            <<Represent(pairs[i].items[1])>>)])
      [] OTHER -> NoNode

\* AbstractObject.__str__
Str(obj) == Represent(obj)

\* The implicit resolver of a plain scalar.
Resolve(text) ==
    IF text \in NullTexts THEN VNone
    ELSE IF text \in {"true", "True", "yes", "on"} THEN VBool("true")
    ELSE IF text \in BoolTexts THEN VBool("false")
    ELSE IF text \in IntTexts THEN VInt(text)
    ELSE VStr(text)

\* yaml.safe_load: the safe constructor knows no !!python/ tag.
RECURSIVE SafeLoad(_)
SafeLoad(node) ==
    CASE node.kind = "scalar" ->
           IF node.style = "quoted" THEN VStr(node.text) ELSE Resolve(node.text)
      [] node.kind = "seq" ->
           LET items == [i \in 1..Len(node.children) |-> SafeLoad(node.children[i])]
           IN  IF node.tag # "" \/ \E i \in 1..Len(items) : items[i] = VError
               THEN VError
               ELSE VList(items)
      [] node.kind = "map" ->
           LET vals == [i \in 1..Len(node.children) |->
                          SafeLoad(node.children[i].children[1])]
           IN  IF \E i \in 1..Len(vals) : vals[i] = VError
               THEN VError
               ELSE VDict([i \in 1..Len(vals) |->
                             VPair(node.children[i].text, vals[i])])
      [] OTHER -> VError

\* Values a caller may put under a metadata key.
PlainMetadata ==
    {VDict(<<>>),
     VDict(<<VPair("foo", VStr("bar"))>>),
     VDict(<<VPair("foo", VNone)>>),
     VDict(<<VPair("foo", VStr("null"))>>),
     VDict(<<VPair("foo", VList(<<VStr("a"), VInt("1")>>))>>),
     VDict(<<VPair("zeta", VStr("1")), VPair("alpha", VBool("true"))>>)}

PythonOnlyMetadata ==
    {VDict(<<VPair("foo", VTuple(<<VStr("a"), VInt("1")>>))>>),
     VDict(<<VPair("zeta", VStr("1")), VPair("alpha", VTuple(<<>>))>>)}

Contents == {"Hello, world!\nMy name is Alice!", "hi", "null", "12"}

EntityIds == {"UserMessage:u1", "m1"}

ReplyTos == {VNone, VStr("UserMessage:u0")}

\* self.dict(): the fields in declaration order, id and metadata of
\* AbstractObject first, then the message's own.
EntityDict(id, metadata, content, sender, replyTo) ==
    VDict(<<VPair("id", VStr(id)), VPair("metadata", metadata),
            VPair("content", VStr(content)), VPair("method", VStr("chat")),
            VPair("sender", VStr(sender)), VPair("reply_to", replyTo)>>)

YamlObjects ==
    {EntityDict(id, md, c, "alice", r) :
       id \in EntityIds, md \in PlainMetadata \cup PythonOnlyMetadata,
       c \in Contents, r \in ReplyTos}

YamlIdle == yobj = VNone /\ ytext = NoNode /\ yparsed = VNone /\ ypc = "idle"

\* str(m)
YamlStr ==
    /\ ypc = "new"
    /\ ytext' = Str(yobj)
    /\ ypc' = "dumped"
    /\ UNCHANGED <<yobj, yparsed, protoVars, graphVars, entVars>>

\* parsed = yaml.safe_load(str(m))
YamlSafeLoad ==
    /\ ypc = "dumped"
    /\ yparsed' = SafeLoad(ytext)
    /\ ypc' = IF SafeLoad(ytext) = VError THEN "error" ELSE "parsed"
    /\ UNCHANGED <<yobj, ytext, protoVars, graphVars, entVars>>

-----------------------------------------------------------------------------
(* Entities: AbstractObject *)

\* Most entities constructed in one run.
MaxEntities == 3

\* Classes of entities, by __class__.__name__.
EntityClasses == {"UserMessage", "CFP"}

\* The id a caller passes: "" is the field's default, for an absent or an
\* empty id.
SuppliedIds == {"", "m1", "CFP:1"}

\* uuid4(): a value no earlier call returned; issued is the number of calls
\* made before this one.
Uuid4(issued) == issued + 1

GeneratedId_NoSuffix(cls, u) == cls

\* self.__class__.__name__ + ":" + str(uuid4())
GeneratedId(cls, u) == cls \o ":" \o ToString(u)

\* AbstractObject.__init__: the fields are set from the arguments, then an
\* id that is empty is replaced by a generated one.
EntityInit(cls, arg, issued) ==
    [cls |-> cls, arg |-> arg,
     id |-> IF arg = "" THEN GeneratedId(cls, Uuid4(issued)) ELSE arg]

\* AbstractObject.__hash__: hash(self.id), a function of the id alone.
Hash(e) == <<"hash", e.id>>

EntityIdle == ents = <<>> /\ uuids = 0

\* cls(id=arg, ...)
NewEntity(cls, arg) ==
    /\ Len(ents) < MaxEntities
    /\ ents' = Append(ents, EntityInit(cls, arg, uuids))
    /\ uuids' = IF arg = "" THEN uuids + 1 ELSE uuids
    /\ UNCHANGED <<protoVars, graphVars, yamlVars>>

-----------------------------------------------------------------------------
(* Specifications *)

Init == ProtoInit /\ GraphIdle /\ YamlIdle /\ EntityIdle

Spec == Init /\ [][Next]_vars

\* Handlers terminate, the merge hands over what is ready, the consumer
\* resumes the generator after each message, and the exhausted stream ends.
Fairness ==
    /\ WF_vars(\E i \in Branches : HandlerDone(i))
    /\ WF_vars(\E i \in Branches : Yield(i))
    /\ WF_vars(Consume(SentNone))
    /\ WF_vars(Finish)

SpecLive == Spec /\ Fairness

GraphInit ==
    /\ ProtoInit /\ policy = "any"
    /\ YamlIdle
    /\ EntityIdle
    /\ gin \in GraphInputs
    /\ graph = EmptyGraph
    /\ gres = NoResult

GraphNext == BuildGraph \/ Query

SpecGraph == GraphInit /\ [][GraphNext]_vars

YamlInit ==
    /\ ProtoInit /\ policy = "any"
    /\ GraphIdle
    /\ EntityIdle
    /\ yobj \in YamlObjects
    /\ ytext = NoNode
    /\ yparsed = VNone
    /\ ypc = "new"

YamlNext == YamlStr \/ YamlSafeLoad

SpecYaml == YamlInit /\ [][YamlNext]_vars

EntityInitial ==
    /\ ProtoInit /\ policy = "any"
    /\ GraphIdle
    /\ YamlIdle
    /\ EntityIdle

EntityNext == \E cls \in EntityClasses, arg \in SuppliedIds : NewEntity(cls, arg)

SpecEntity == EntityInitial /\ [][EntityNext]_vars

-----------------------------------------------------------------------------
(* Properties of the request run *)

Distinct(s) == \A i, j \in 1..Len(s) : s[i] = s[j] => i = j

Started == pc # "new"

DispatchedCfps == {m \in dispatched : m.kind = "cfp"}

\* C1: one call to request dispatches exactly N CFPs for N contractors, each
\* from the manager, the i-th to the i-th contractor; a contractor receives
\* as many CFPs as the list names it, so exactly one (never two, never none)
\* when the N contractors are distinct.
C1_OneCfpPerContractor ==
    Started =>
      /\ Cardinality(DispatchedCfps) = Len(net.contractors)
      /\ \A m \in DispatchedCfps : m.sender = net.manager
      /\ \A i \in 1..Len(net.contractors) :
           Cardinality({m \in DispatchedCfps : m.receiver = net.contractors[i]})
             = Cardinality({j \in 1..Len(net.contractors) :
                              net.contractors[j] = net.contractors[i]})
      /\ Distinct(net.contractors) =>
           \A i \in 1..Len(net.contractors) :
             Cardinality({m \in DispatchedCfps : m.receiver = net.contractors[i]}) = 1

C1_Witness ==
    /\ Started
    /\ Len(net.contractors) = 2
    /\ Distinct(net.contractors)
    /\ Cardinality(DispatchedCfps) = 2

OutMsgs == UNION {{out[i][p] : p \in 1..Len(out[i])} : i \in 1..Len(out)}

\* C2: every CFP that request builds has reply_to equal to the id of the
\* Request that triggered it.
C2_CfpRepliesToRequest ==
    Started =>
      /\ request.id # NoId
      /\ \A m \in dispatched \cup OutMsgs :
           m.kind = "cfp" => m.reply_to = request.id

C2_Witness ==
    /\ Started
    /\ request.id = <<"request", 0, 2>>
    /\ \E m \in OutMsgs : m.kind = "cfp"
    /\ Cardinality(DispatchedCfps) = 2

\* C3: once the consumer has sent the stop sentinel after the k-th message,
\* the stream holds exactly k messages for ever: no (k+1)-th is yielded,
\* whatever the branches in flight do.
C3_NoYieldAfterStop ==
    stopK > 0 => StreamLen = stopK /\ pc = "done"

C3_Witness ==
    /\ stopK = 2
    /\ StreamLen = 2
    /\ \E i, j \in Branches :
         /\ i # j
         /\ stage[i] = "handling"
         /\ stage[j] = "end"
         /\ n[j] >= 2

\* C4: a yielded message whose reply_to names another yielded message comes
\* strictly after it in the output stream: both belong to one branch, and
\* the cause was yielded earlier on that branch.
C4_ReplyAfterCause ==
    \A i, j \in 1..Len(out) :
      \A a \in 1..Len(out[i]), b \in 1..Len(out[j]) :
        out[j][b].reply_to = out[i][a].id => i = j /\ a < b

C4_Witness ==
    \E i, j \in 1..Len(out) :
      /\ i # j
      /\ Len(out[j]) >= 1
      /\ \E a, c, d \in 1..Len(out[i]) :
           /\ a < c /\ c < d
           /\ out[i][a].kind = "propose"
           /\ out[i][c].kind = "accept_proposal"
           /\ out[i][c].reply_to = out[i][a].id
           /\ out[i][d].kind = "inform_done"
           /\ out[i][d].reply_to = out[i][c].id

ClaimedTransitions ==
    {<<"Idle", "CFP-sent">>,
     <<"CFP-sent", "Proposed">>, <<"CFP-sent", "Refused">>,
     <<"Proposed", "Accepted">>, <<"Proposed", "Rejected">>,
     <<"Accepted", "Done">>, <<"Accepted", "Resulted">>, <<"Accepted", "Failed">>}

FailureTransitions == {<<"CFP-sent", "Failed">>, <<"Proposed", "Failed">>}

MovesWithin(allowed) ==
    /\ (bstate = <<>> /\ bstate' # <<>>) =>
         \A i \in DOMAIN bstate' : bstate'[i] = "Idle"
    /\ \A i \in DOMAIN bstate :
         /\ i \in DOMAIN bstate'
         /\ bstate'[i] # bstate[i] => <<bstate[i], bstate'[i]>> \in allowed
    /\ (pc = "new" /\ pc' # "new") =>
         \A i \in DOMAIN bstate : bstate[i] = "Idle"

Party(m) == IF m.sender = ManagerId THEN m.receiver ELSE m.sender

Tag(m) == <<m.kind, Party(m)>>

ScenarioExpected ==
    {<<"cfp", "A">>, <<"cfp", "B">>, <<"cfp", "C">>,
     <<"refuse", "A">>, <<"propose", "B">>, <<"propose", "C">>,
     <<"reject_proposal", "C">>, <<"accept_proposal", "B">>,
     <<"inform_done", "B">>}

Completed == pc = "done" /\ stopK = 0

\* C6: in the scenario (A refuses, B and C propose, B accepted, C rejected,
\* B informs done) a fully consumed stream holds exactly CFP x3, Refuse(A),
\* Propose(B), Propose(C), RejectProposal(C), AcceptProposal(B),
\* InformDone(B), each once, under every interleaving.
C6_ScenarioStream ==
    (policy = "scenario" /\ net.status = "built" /\ Completed) =>
      /\ {Tag(m) : m \in OutMsgs} = ScenarioExpected
      /\ StreamLen = Cardinality(ScenarioExpected)
      /\ Cardinality(OutMsgs) = StreamLen

C6_Witness ==
    /\ policy = "scenario"
    /\ net.contractors = ScenarioContractors
    /\ Completed
    /\ StreamLen = 9

\* C7: a ContractNet cannot be built from an empty contractor list: the
\* constructor fails, no ContractNet without contractors exists, and nothing
\* is built or dispatched for the failed construction.
C7_EmptyContractorsRejected ==
    /\ (net.status # "none" /\ net.arg = <<>>) => net.status = "error"
    /\ net.status = "built" => Len(net.contractors) >= 1
    /\ net.status = "error" =>
         /\ pc = "new"
         /\ dispatched = {}
         /\ out = <<>>
         /\ q = <<>>
         /\ net.links = {}

C7_Witness == net.status = "error" /\ net.arg = <<>>

Terminal == {"Refused", "Rejected", "Done", "Resulted", "Failed"}

BranchVars(i) == <<q[i], out[i], cur[i], stage[i], n[i], bstate[i], rcv[i]>>

CfpRaises(i) == i \notin raisedCfp /\ i \in raisedCfp'

\* C8: when a contractor's cfp handler raises, the fully consumed stream
\* holds a Failure answering that contractor's CFP and addressed to the
\* manager; the raise touches no other branch, and every other branch still
\* runs to a terminal state.
C8_CfpFailureIsLocal ==
    /\ [](Completed =>
           /\ \A i \in raisedCfp :
                \E m \in OutMsgs :
                  /\ m.kind = "failure"
                  /\ m.receiver = net.manager
                  /\ m.sender = net.contractors[i]
                  /\ m.reply_to = NewId("cfp", i, 1)
           /\ \A j \in Branches : bstate[j] \in Terminal /\ stage[j] = "end")
    /\ [](\A i \in raisedCfp : bstate[i] = "Failed")
    /\ [][\A i \in Branches :
            CfpRaises(i) =>
              \A j \in Branches \ {i} : BranchVars(j)' = BranchVars(j)]_protoVars

C8_Witness ==
    /\ Completed
    /\ \E i, j \in Branches :
         /\ i \in raisedCfp
         /\ j \notin raisedCfp
         /\ bstate[j] = "Done"
         /\ \E m \in OutMsgs : m.kind = "failure" /\ m.reply_to = NewId("cfp", i, 1)
         /\ \E m \in OutMsgs : m.kind = "inform_done" /\ m.sender = net.contractors[j]

-----------------------------------------------------------------------------
(* Properties of the message graph *)

GraphIds == {gin[p].id : p \in 1..Len(gin)}

ReplyToOf(a) == (CHOOSE m \in {gin[p] : p \in 1..Len(gin)} : m.id = a).reply_to

\* The message reached from a by following reply_to k times (NoRef if none).
RECURSIVE KthCause(_, _)
KthCause(a, k) ==
    IF k = 0 THEN a
    ELSE LET c == KthCause(a, k - 1)
         IN  IF c \in GraphIds THEN ReplyToOf(c) ELSE NoRef

ReachedByReplies(a, b) == \E k \in 1..Len(gin) : KthCause(a, k) = b

\* The p-th input message answers an id that no earlier message has.
Dangling(p) ==
    /\ gin[p].reply_to # NoRef
    /\ gin[p].reply_to \notin {gin[k].id : k \in 1..(p - 1)}

CausallyOrdered == \A p \in 1..Len(gin) : ~Dangling(p)

\* C9: in a graph built by message_graph, has_predecessor(a, b) holds exactly
\* when b is reached from a by one or more reply_to links: true for a direct
\* and for a transitive reply, false for unrelated messages and, the
\* messages each answering an earlier one, for the reversed pair.
C9_HasPredecessorIsAncestry ==
    graph.status = "built" =>
      /\ \A a, b \in graph.nodes :
           HasPredecessor(graph, a, b) <=> ReachedByReplies(a, b)
      /\ gres.asked => (gres.ans <=> ReachedByReplies(gres.a, gres.b))
      /\ CausallyOrdered =>
           \A a, b \in graph.nodes :
             HasPredecessor(graph, a, b) => ~HasPredecessor(graph, b, a)

C9_Witness ==
    /\ gin = TestMessages
    /\ graph.status = "built"
    /\ gres.asked /\ gres.a = 3 /\ gres.b = 1 /\ gres.ans
    /\ HasPredecessor(graph, 2, 1)
    /\ HasPredecessor(graph, 3, 2)
    /\ ~HasPredecessor(graph, 1, 3)

Acyclic(g) == \A a \in g.nodes : ~EdgePath(g, a, a, Cardinality(g.nodes))

\* C13 as claimed: message_graph fails exactly when some message of its
\* input answers an id that did not occur earlier in the input (absent, its
\* own, or a later message's); such a link is never silently taken, and a
\* graph that is built has no cycle.
C13_DanglingReplyFails ==
    graph.status # "none" =>
      /\ graph.status = "error" <=> ~CausallyOrdered
      /\ graph.status = "built" => Acyclic(graph)

-----------------------------------------------------------------------------
(* Properties of the textual form *)

RECURSIVE YamlNative(_)
YamlNative(v) ==
    /\ v.t # "tuple"
    /\ \A i \in 1..Len(v.items) : YamlNative(v.items[i])

Loaded == ypc \in {"parsed", "error"}

\* C10 as claimed: for every message, parsing str(message) yields the fields
\* of message.dict(), equal one by one and in declaration order.
C10_RoundTripEveryMessage ==
    Loaded => ypc = "parsed" /\ yparsed = yobj

\* C10 (amended): for every message whose field values are YAML-native
\* (strings, numbers, booleans, None, lists and dicts of these), parsing
\* str(message) yields the fields of message.dict(), equal one by one and in
\* declaration order; a value of a Python-only type such as a tuple makes
\* the parse fail.
C10_RoundTripYamlNative ==
    Loaded =>
      IF YamlNative(yobj)
      THEN ypc = "parsed" /\ yparsed = yobj
      ELSE ypc = "error"

C10_Witness ==
    /\ ypc = "parsed"
    /\ yparsed = yobj
    /\ yobj.items[3].items[1] = VStr("null")
    /\ yobj.items[2].items[1] = VDict(<<VPair("zeta", VStr("1")),
                                        VPair("alpha", VBool("true"))>>)

-----------------------------------------------------------------------------
(* Properties of receive *)

ReceiverRole(i) == RoleOf(rcv[i].msg.receiver)

Rejects(i) == rcv[i] # rcv'[i] /\ rcv'[i].outcome = "unsupported"

\* C11 as claimed: receive fails with UnsupportedMessageKind exactly when the
\* message's kind is outside the receiver's receivable set and invokes the
\* handler for the kind otherwise; in a run the rejection becomes a Failure
\* on that branch, answering the rejected message, and neither ends the
\* stream nor touches another branch.
C11_RejectsOrInvokesHandler ==
    /\ [](\A i \in DOMAIN rcv :
            rcv[i].done =>
              IF rcv[i].msg.kind \notin Receivable(ReceiverRole(i))
              THEN /\ rcv[i].outcome = "unsupported"
                   /\ cur[i].kind = "failure"
                   /\ cur[i].reply_to = rcv[i].msg.id
              ELSE rcv[i].outcome \notin {"unsupported", "nohandler"})
    /\ [][\A i \in Branches :
            Rejects(i) =>
              /\ pc' = pc
              /\ \A j \in Branches \ {i} : BranchVars(j)' = BranchVars(j)]_protoVars

-----------------------------------------------------------------------------
(* Properties of forward *)

\* Every message built so far in the run.
Queued == UNION {{q[i][p] : p \in 1..Len(q[i])} : i \in 1..Len(q)}

Built == {request} \cup dispatched \cup OutMsgs \cup Queued

ForwardedFrom(m, src) ==
    /\ m.reply_to = src.id
    /\ m.method = src.method
    /\ m.metadata = src.metadata
    /\ m.id # src.id
    /\ \A other \in Built : other.id = m.id => other = m

C16_ReceivableIsHandled ==
    /\ ParticipantReceivable = {"cfp", "accept_proposal", "reject_proposal"}
    /\ InitiatorReceivable =
         {"propose", "inform_done", "inform_result", "failure"}
    /\ \A role \in {"participant", "initiator"} :
         Receivable(role) = Handlers(role)
    /\ \A i \in DOMAIN rcv :
         (rcv[i].done /\ rcv[i].msg.kind \in Receivable(ReceiverRole(i))) =>
           rcv[i].outcome # "nohandler"

-----------------------------------------------------------------------------
(* Properties of the topology *)

\* A link of the network joins the two agents, in either direction.
Linked(a, b) ==
    \E l \in net.links : (l[1] = a /\ l[3] = b) \/ (l[1] = b /\ l[3] = a)

Members == {net.manager} \cup {net.contractors[i] : i \in 1..Len(net.contractors)}

\* C14 as claimed: every message dispatched during a request run travels
\* between the manager and one of its contractors, over the link that joins
\* them; none goes from contractor to contractor or to an agent outside the
\* network.
C14_DispatchAlongLinks ==
    \A m \in dispatched :
      /\ Linked(m.sender, m.receiver)
      /\ m.sender = net.manager \/ m.receiver = net.manager
      /\ m.sender \in Members /\ m.receiver \in Members

-----------------------------------------------------------------------------
(* Properties of the terminal states *)

\* A message is built on branch i in this step.
Builds(i) == n'[i] # n[i]

ManagerHandles(i, kinds) ==
    /\ rcv'[i] # rcv[i]
    /\ rcv'[i].msg.receiver = net.manager
    /\ rcv'[i].msg.kind \in kinds

\* C15 as claimed: once a branch is in Refused, Rejected, Done, Resulted or
\* Failed, no further message is built on it, so none is dispatched or
\* yielded beyond those already built; a Refuse is not dispatched, and the
\* manager's handling of an InformResult, an InformDone or a Failure builds
\* no reply.
C15_TerminalIsAbsorbing ==
    /\ [][\A i \in Branches :
            /\ bstate[i] \in Terminal => ~Builds(i) /\ bstate'[i] = bstate[i]
            /\ ManagerHandles(i, {"inform_result", "inform_done", "failure"}) =>
                 ~Builds(i)]_protoVars
    /\ [](\A m \in dispatched : m.kind # "refuse")

-----------------------------------------------------------------------------
(* Properties of an out-of-protocol answer *)

\* The cfp handler of branch i answers, in this step, with a message that is
\* neither a Propose nor a Refuse.
UnexpectedCfpReply(i) ==
    /\ rcv'[i] # rcv[i]
    /\ rcv'[i].msg.kind = "cfp"
    /\ rcv'[i].outcome \in Kinds \ {"propose", "refuse"}

\* C19: when a contractor answers a CFP with neither a Propose nor a Refuse,
\* the branch gets a Failure answering the CFP and is Failed, and no other
\* branch is touched; the offending message never enters the stream, and
\* every AcceptProposal or RejectProposal answers a Propose that answers a
\* CFP.
C19_UnexpectedReplyFailsBranch ==
    /\ [][\A i \in Branches :
            UnexpectedCfpReply(i) =>
              /\ cur'[i].kind = "failure"
              /\ cur'[i].reply_to = rcv'[i].msg.id
              /\ cur'[i].receiver = net.manager
              /\ bstate'[i] = "Failed"
              /\ pc' = pc
              /\ \A j \in Branches \ {i} : BranchVars(j)' = BranchVars(j)]_protoVars
    /\ [](\A m \in Built :
            /\ m.kind \in {"accept_proposal", "reject_proposal"} =>
                 \E p \in Built :
                   /\ p.id = m.reply_to /\ p.kind = "propose"
                   /\ \E c \in Built : c.id = p.reply_to /\ c.kind = "cfp"
            /\ m.kind \notin {"propose", "refuse", "failure"} =>
                 \A c \in Built : c.id = m.reply_to => c.kind # "cfp")

C19_Witness ==
    \E i, j \in Branches :
      /\ rcv[i].msg.kind = "cfp" /\ rcv[i].outcome = "inform_done"
      /\ bstate[i] = "Failed"
      /\ cur[i].kind = "failure"
      /\ bstate[j] = "Done"

-----------------------------------------------------------------------------
(* Termination *)

\* C17: with handlers that terminate, fair scheduling of the branches and a
\* consumer that keeps consuming, a request run that has started eventually
\* ends; and when a fully consumed stream has ended, every branch is in
\* Refused, Rejected, Done, Resulted or Failed.
C17_StreamEndsInTerminalStates ==
    /\ (pc = "waiting") ~> (pc = "done")
    /\ [](Completed =>
           \A i \in Branches : bstate[i] \in Terminal /\ q[i] = <<>>)

C17_Witness ==
    /\ Completed
    /\ Len(net.contractors) = 2
    /\ \E i, j \in Branches :
         /\ bstate[i] = "Resulted" /\ n[i] >= 5
         /\ bstate[j] = "Rejected"

Stopped == stopK > 0

\* C18: after the consumer's stop signal no message is dispatched any more,
\* the handlers then in flight run to completion and what they produce is
\* dropped (nothing is built, queued or yielded), and the stream is ended:
\* request has returned and never waits again.
C18_StopEndsTheStream ==
    /\ [][Stopped =>
            /\ dispatched' = dispatched
            /\ n' = n /\ cur' = cur /\ q' = q /\ out' = out
            /\ pc' = pc]_protoVars
    /\ [](Stopped => pc = "done" /\ \A i \in Branches : q[i] = <<>>)
    /\ Stopped ~> (\A i \in Branches : stage[i] = "end")

C18_Witness ==
    /\ stopK = 1
    /\ \E i, j \in Branches :
         /\ stage[i] = "end" /\ bstate[i] = "Proposed"
         /\ stage[j] = "end" /\ bstate[j] = "CFP-sent"

-----------------------------------------------------------------------------
(* Properties of the identity of entities *)

Unnamed == {p \in 1..Len(ents) : ents[p].arg = ""}

\* C20: a constructed entity has a non-empty id: the id the caller gave,
\* unchanged, or else a generated ClassName:<suffix>; two entities
\* constructed without an id have different ids, hence different hashes,
\* and entities with one id have one hash.
C20_EveryEntityHasItsId ==
    /\ \A p \in 1..Len(ents) :
         /\ ents[p].id # ""
         /\ ents[p].arg # "" => ents[p].id = ents[p].arg
         /\ ents[p].arg = "" =>
              \E u \in 1..uuids : ents[p].id = ents[p].cls \o ":" \o ToString(u)
    /\ \A p, r \in Unnamed :
         p # r => ents[p].id # ents[r].id /\ Hash(ents[p]) # Hash(ents[r])
    /\ \A p, r \in 1..Len(ents) :
         ents[p].id = ents[r].id => Hash(ents[p]) = Hash(ents[r])

C20_Witness ==
    /\ Len(ents) = 3
    /\ ents[1].cls = "CFP" /\ ents[1].arg = ""
    /\ ents[2].cls = "CFP" /\ ents[2].arg = ""
    /\ ents[3].arg = "m1" /\ ents[3].id = "m1"

====
